---- MODULE Spec2Model ----
(***************************************************************************)
(* Verification model of the workshop notebooks.                           *)
(*                                                                         *)
(* Four notebooks are modelled, each as the sequence of statements of its  *)
(* code cells, executed by one Jupyter kernel against the external         *)
(* services it calls:                                                      *)
(*   "iam" : 04_ingest/archive/IAM_Redshift.ipynb                          *)
(*   "s3"  : 10_pipeline/airflow/00_Create_S3_Bucket.ipynb                 *)
(*   "dag" : the Airflow DAG-definition notebook (unnamed/part_000)        *)
(*   "feat": 02_usecases/sagemaker_recommendations/wip/04_Featurization    *)
(*                                                                         *)
(* A kernel executes a notebook top to bottom.  A statement that reads an  *)
(* unbound name raises NameError; a cell that does not compile raises      *)
(* SyntaxError before any of its statements runs; an exception that no     *)
(* handler of the cell catches aborts the rest of the cell.  After an      *)
(* aborted cell the run either stops (Jupyter's "Run All") or goes on      *)
(* with the next cell (cells executed one by one): stopOnError.            *)
(* The external services (IAM, S3, the workflow scheduler) are modelled by *)
(* their documented behaviour; any call may also fail with an error that   *)
(* has nothing to do with the resource's existence.                        *)
(***************************************************************************)
EXTENDS Integers, Sequences, FiniteSets, TLC

\* ------------------------------------------------------------------ bounds
\* Number of top-to-bottom runs of the notebook that a behaviour holds.
MaxRuns == 2

\* Largest number of ratings of a dataset.
MaxRatings == 2

\* Largest number of titles in a batch handed to a model.
MaxBatch == 2

\* ------------------------------------------------------------ statements
St(cell, kind, reads, binds, arg, arg2) ==
    [cell |-> cell, kind |-> kind, reads |-> reads, binds |-> binds,
     arg |-> arg, arg2 |-> arg2, syntaxError |-> FALSE]

\* A statement of a cell whose source does not compile.
Bad(s) == [s EXCEPT !.syntaxError = TRUE]

RoleName == "DSOAWS_Redshift"
PolicyS3 == "DSOAWS_RedshiftPolicyToS3"
PolicyAthena == "DSOAWS_RedshiftPolicyToAthena"
PolicyNames == {PolicyS3, PolicyAthena}

\* IAM_Redshift.ipynb, code cells 1..15.
IamNotebook == <<
    St(1, "bind", {}, {"json", "boto3", "ClientError", "iam"}, "obj", ""),
    St(2, "bind", {}, {"assume_role_policy_doc"}, "obj", ""),
    St(3, "bind", {}, {"iam_redshift_role_name"}, RoleName, ""),
    St(4, "create_role",
       {"iam", "iam_redshift_role_name", "json", "assume_role_policy_doc"},
       {"iam_role_redshift"}, "", ""),
    St(5, "copy", {"iam_role_redshift"}, {"iam_role_redshift_arn"},
       "iam_role_redshift", ""),
    St(6, "bind", {"iam_role_redshift_arn"}, {}, "obj", ""),
    St(7, "get_role", {"iam"}, {"role", "role_arn"}, "", ""),
    St(8, "bind", {}, {"my_redshift_to_s3"}, "obj", ""),
    St(9, "bind", {}, {"my_redshift_to_athena"}, "obj", ""),
    St(10, "create_policy", {"iam", "json", "my_redshift_to_s3"},
       {"policy_redshift_s3"}, PolicyS3, ""),
    St(10, "bind", {"policy_redshift_s3"}, {}, "obj", ""),
    St(11, "copy", {"policy_redshift_s3"}, {"policy_redshift_s3_arn"},
       "policy_redshift_s3", ""),
    St(12, "create_policy", {"iam", "json", "my_redshift_to_athena"},
       {"policy_redshift_athena"}, PolicyAthena, ""),
    St(12, "bind", {"policy_redshift_athena"}, {}, "obj", ""),
    St(13, "copy", {"policy_redshift_athena"}, {"policy_redshift_athena_arn"},
       "policy_redshift_athena", ""),
    St(14, "attach_role_policy",
       {"iam", "policy_redshift_athena_arn", "iam_redshift_role_name"},
       {"response"}, "policy_redshift_athena_arn", ""),
    St(15, "attach_role_policy",
       {"iam", "policy_redshift_s3_arn", "iam_redshift_role_name"},
       {"response"}, "policy_redshift_s3_arn", "")
>>

BucketName == "airflow-region-account"
StoredPaths == {"airflow_bucket_name", "s3_mwaa_private_path",
                "s3_mwaa_dags_private_path", "s3_mwaa_pipeline_private_path"}

\* 00_Create_S3_Bucket.ipynb, code cells 1..10 (the empty last cell left out).
S3Notebook == <<
    St(1, "bind", {}, {"boto3", "session", "region"}, "obj", ""),
    St(1, "get_caller_identity", {"boto3"}, {"account_id"}, "", ""),
    St(1, "bind", {"region", "account_id"}, {"airflow_bucket_name"},
       BucketName, ""),
    St(1, "bind", {"boto3", "region"}, {"s3"}, "obj", ""),
    St(1, "create_bucket", {"s3", "airflow_bucket_name"}, {}, "", ""),
    St(1, "put_public_access_block", {"s3", "airflow_bucket_name"},
       {"response"}, "", ""),
    St(2, "bind", {"airflow_bucket_name"},
       {"s3_mwaa_private_path", "s3_mwaa_dags_private_path",
        "s3_mwaa_pipeline_private_path"}, "obj", ""),
    St(3, "bind", {}, {"setup_s3_bucket_passed"}, "False", ""),
    St(4, "bind", {"airflow_bucket_name"}, {}, "obj", ""),
    St(5, "store", {}, {}, "airflow_bucket_name", ""),
    St(5, "store", {}, {}, "s3_mwaa_private_path", ""),
    St(5, "store", {}, {}, "s3_mwaa_dags_private_path", ""),
    St(5, "store", {}, {}, "s3_mwaa_pipeline_private_path", ""),
    St(6, "bind", {}, {}, "obj", ""),
    St(7, "bind", {}, {"ClientError"}, "obj", ""),
    St(7, "bind", {}, {"response"}, "None", ""),
    St(7, "head_bucket", {"s3", "airflow_bucket_name"}, {}, "", ""),
    St(8, "store", {}, {}, "setup_s3_bucket_passed", ""),
    St(9, "bind", {}, {}, "obj", ""),
    St(10, "bind", {}, {}, "obj", "")
>>

\* Names the DAG notebook reads and no cell of it binds: the settings of the
\* training job and of its inputs.
Settings == {"role", "input_data_s3_uri", "output_data_s3_uri",
    "train_instance_count", "train_instance_type", "train_volume_size",
    "checkpoint_s3_uri", "epochs", "learning_rate", "epsilon",
    "train_batch_size", "validation_batch_size", "test_batch_size",
    "train_steps_per_epoch", "validation_steps", "test_steps", "use_xla",
    "use_amp", "max_seq_length", "freeze_bert_layer",
    "enable_sagemaker_debugger", "enable_checkpointing", "enable_tensorboard",
    "run_validation", "run_test", "run_sample_predictions", "input_mode",
    "metrics_definitions", "rules", "hook_config"}

EstimatorReads == Settings \ {"input_data_s3_uri", "output_data_s3_uri"}

TaskIds == {"start", "process", "train", "model", "deploy"}

\* The DAG-definition notebook, code cells 1..12.
DagNotebook == <<
    St(1, "bind", {}, {"airflow", "DAG", "default_args"}, "obj", ""),
    St(1, "new_dag", {"DAG", "default_args"}, {"dag"}, "bert_reviews", ""),
    St(2, "operator", {"DummyOperator", "dag"}, {"init"}, "start", ""),
    St(3, "bind", {}, {"SageMakerProcessingOperator", "processing_config"},
       "obj", ""),
    St(3, "bind", {"processing_config", "estimator", "input_data_s3_uri",
                   "output_data_s3_uri"}, {"process_config"}, "obj", ""),
    St(3, "operator", {"SageMakerProcessingOperator", "process_config", "dag"},
       {"process_op"}, "process", ""),
    St(4, "set_upstream", {"process_op", "init"}, {}, "process_op", "init"),
    St(5, "bind", {}, {"TensorFlow"}, "obj", ""),
    St(5, "bind", {"TensorFlow"} \cup EstimatorReads, {"estimator"}, "obj", ""),
    St(6, "bind", {}, {"SageMakerTrainingOperator", "training_config"},
       "obj", ""),
    St(6, "bind", {"training_config", "estimator", "input_data_s3_uri"},
       {"train_config"}, "obj", ""),
    St(6, "operator", {"SageMakerTrainingOperator", "train_config", "dag"},
       {"train_op"}, "train", ""),
    St(7, "set_upstream", {"train_op", "process_op"}, {}, "train_op",
       "process_op"),
    St(8, "bind", {}, {"SageMakerModelOperator", "model_config"}, "obj", ""),
    St(8, "operator", {"SageMakerModelOperator", "model_config", "dag"},
       {"model_op"}, "model", ""),
    St(9, "set_upstream", {"model_op", "train_op"}, {}, "model_op", "train_op"),
    Bad(St(10, "bind", {}, {"SageMakerEndpointOperator", "endpoint_config"},
           "obj", "")),
    Bad(St(10, "operator",
           {"SageMakerEndpointOperator", "endpoint_config", "dag"},
           {"deploy_op"}, "deploy", "")),
    St(11, "set_upstream", {"deploy_op", "model_op"}, {}, "deploy_op",
       "model_op"),
    St(12, "set_downstream", {"init", "process_op"}, {}, "init", "process_op"),
    St(12, "set_downstream", {"processing_op", "train_op"}, {},
       "processing_op", "train_op"),
    St(12, "set_downstream", {"train_op", "model_op"}, {}, "train_op",
       "model_op"),
    St(12, "set_downstream", {"model_op", "deploy_op"}, {}, "model_op",
       "deploy_op")
>>

\* ---------------------------------------------------------- featurization
\* num_hashing_bins = 200_000
NumHashingBins == 200000

\* max_tokens = 10_000 (MovieModel)
MaxTokens == 10000

\* np.linspace(..., num=1000)
NumBuckets == 1000

\* reduce(tf.cast(0, tf.int64), tf.maximum)
MaxSeed == 0

\* reduce(np.int64(1e9), tf.minimum)
MinSeed == 1000000000

\* Mutant: the embedding does not mask index 0.
MaskZero_off == FALSE

\* Embedding(..., mask_zero=True) of the title-text embedding.
MaskZero == TRUE

\* Mutant: the title layers are adapted on the user ids.
MovieTitleFeature_user == "user_id"

\* The feature each adapt call of the notebook reads from the ratings.
MovieTitleFeature == "movie_title"
UserIdFeature == "user_id"
TimestampFeature == "timestamp"

\* 04_Featurization.ipynb, code cells 1..22.  A layer built inside a model
\* class is named after the attribute that holds it.
FeatNotebook == <<
    St(1, "bind", {}, {"pprint", "tfds"}, "obj", ""),
    St(1, "bind", {"tfds"}, {"ratings"}, "obj", ""),
    St(1, "bind", {"ratings", "pprint"}, {}, "obj", ""),
    St(2, "bind", {}, {"np", "tf"}, "obj", ""),
    St(2, "new_layer", {"tf"}, {"movie_title_lookup"}, "movie_title_lookup", ""),
    St(3, "adapt", {"movie_title_lookup", "ratings"}, {}, "movie_title_lookup",
       MovieTitleFeature),
    St(3, "bind", {"movie_title_lookup"}, {}, "obj", ""),
    St(4, "call", {"movie_title_lookup"}, {}, "movie_title_lookup", "titles"),
    St(5, "bind", {}, {"num_hashing_bins"}, "obj", ""),
    St(5, "bind", {"tf", "num_hashing_bins"}, {"movie_title_hashing"}, "obj", ""),
    St(6, "bind", {"movie_title_hashing"}, {}, "obj", ""),
    St(7, "embedding", {"tf", "movie_title_lookup"}, {"movie_title_embedding"},
       "movie_title_embedding", "movie_title_lookup"),
    St(8, "bind", {"tf", "movie_title_lookup", "movie_title_embedding"},
       {"movie_title_model"}, "obj", ""),
    St(9, "call_model", {"movie_title_model"}, {}, "movie_title_model", "title"),
    St(10, "new_layer", {"tf"}, {"user_id_lookup"}, "user_id_lookup", ""),
    St(10, "embedding", {"tf", "num_hashing_bins"}, {"user_id_embedding"},
       "user_id_embedding", "num_hashing_bins"),
    St(10, "adapt", {"user_id_lookup", "ratings"}, {}, "user_id_lookup",
       UserIdFeature),
    St(10, "bind", {"tf", "user_id_lookup", "user_id_embedding"},
       {"user_id_model"}, "obj", ""),
    St(11, "call_model", {"user_id_model"}, {}, "user_id_model", "user"),
    St(12, "bind", {"ratings"}, {}, "obj", ""),
    St(13, "new_layer", {"tf"}, {"timestamp_normalization"},
       "timestamp_normalization", ""),
    St(13, "adapt", {"timestamp_normalization", "ratings"}, {},
       "timestamp_normalization", TimestampFeature),
    St(13, "call", {"ratings", "timestamp_normalization"}, {},
       "timestamp_normalization", "take3"),
    St(14, "reduce", {"ratings", "tf"}, {"max_timestamp"}, "max", ""),
    St(14, "reduce", {"ratings", "np", "tf"}, {"min_timestamp"}, "min", ""),
    St(14, "linspace", {"np", "min_timestamp", "max_timestamp"},
       {"timestamp_buckets"}, "", ""),
    St(14, "bind", {"timestamp_buckets"}, {}, "obj", ""),
    St(15, "embedding", {"tf", "timestamp_buckets"},
       {"timestamp_embedding_model"}, "timestamp_embedding", "buckets+1"),
    St(15, "call_model", {"ratings", "timestamp_embedding_model"}, {},
       "timestamp_embedding_model", "take1"),
    St(16, "new_layer", {"tf"}, {"title_text"}, "title_text", ""),
    St(16, "adapt", {"title_text", "ratings"}, {}, "title_text",
       MovieTitleFeature),
    St(17, "call", {"ratings", "title_text"}, {}, "title_text", "take1"),
    St(18, "bind", {"title_text"}, {}, "obj", ""),
    St(19, "bind", {"tf"}, {"UserModel"}, "obj", ""),
    St(20, "embedding", {"UserModel", "tf", "user_id_lookup"}, {},
       "user_model.user_embedding", "user_id_lookup"),
    St(20, "embedding", {"tf", "timestamp_buckets"}, {},
       "user_model.timestamp_embedding", "buckets+2"),
    St(20, "new_layer", {"tf"}, {"user_model"},
       "user_model.normalized_timestamp", ""),
    St(20, "adapt", {"user_model", "ratings"}, {},
       "user_model.normalized_timestamp", TimestampFeature),
    St(20, "call_model", {"ratings", "user_model"}, {}, "user_model", "take1"),
    St(21, "bind", {"tf"}, {"MovieModel"}, "obj", ""),
    St(22, "embedding", {"MovieModel", "tf", "movie_title_lookup"}, {},
       "movie_model.title_embedding", "movie_title_lookup"),
    St(22, "new_layer", {"tf"}, {}, "movie_model.title_text", ""),
    St(22, "embedding", {"tf"}, {"movie_model"},
       "movie_model.title_text_embedding", "max_tokens"),
    St(22, "adapt", {"movie_model", "ratings"}, {}, "movie_model.title_text",
       MovieTitleFeature),
    St(22, "call_model", {"ratings", "movie_model"}, {}, "movie_model", "take2")
>>

Notebooks == {"iam", "s3", "dag", "feat"}

Program(n) ==
    CASE n = "iam" -> IamNotebook
      [] n = "s3" -> S3Notebook
      [] n = "feat" -> FeatNotebook
      [] OTHER -> DagNotebook

RangeOf(seq) == {seq[i] : i \in 1..Len(seq)}

\* The names a notebook's statements read, bind or store.
Names(n) ==
    UNION {s.reads \cup s.binds : s \in RangeOf(Program(n))}
    \cup {s.arg : s \in {x \in RangeOf(Program(n)) : x.kind = "store"}}

UNBOUND == "<unbound>"


\* ------------------------------------------------------------------ state
VARIABLES
    nb,           \* the notebook this kernel executes
    stopOnError,  \* TRUE: the run stops at the first aborted cell (Run All)
    env,          \* names the kernel already holds when it starts
    run,          \* number of the current top-to-bottom run
    fresh,        \* the current run started in a fresh kernel
    prevClean,    \* the previous run passed every cell and every call
    phase,        \* "run" | "done" (last cell passed) | "halted"
    pc,           \* index of the next statement of Program(nb); 0 when ended
    ns,           \* the kernel's namespace: name -> value, UNBOUND if unbound
    errs,         \* exceptions that aborted a cell in this run
    printed,      \* messages the handlers printed in this run
    calls,        \* service calls of this run, in order, with their result
    iamAcct,      \* IAM: [roles, policies, attached (to the role)]
    bucket,       \* S3: "absent" | "mine" | "other" (owned by another account)
    pab,          \* S3: the bucket's public-access-block is set (all four flags)
    store,        \* the %store database, which outlives the kernel
    tasks,        \* the task ids of the DAG object held by the kernel
    edges,        \* its dependencies: <<upstream, downstream>>
    dagrun,       \* "none" | "running" | "over"
    tstate,       \* state of each task in the DAG run
    ratings,      \* the ratings dataset: a sequence of rows
    vocab,        \* vocabulary of each lookup / text layer, <<>> if not built
    adapted,      \* the preprocessing layers that have been adapted
    dims,         \* input_dim of each embedding, 0 if not built
    stamps,       \* max_timestamp, min_timestamp and the linspace arguments
    out           \* what the last call of a layer or model returned

vars == <<nb, stopOnError, env, run, fresh, prevClean, phase, pc, ns, errs, printed,
          calls, iamAcct, bucket, pab, store, tasks, edges, dagrun, tstate,
          ratings, vocab, adapted, dims, stamps, out>>

kernelVars == <<ns, errs, printed, calls, phase, pc>>
serviceVars == <<iamAcct, bucket, pab, store>>
dagVars == <<tasks, edges, dagrun, tstate>>
fixedVars == <<nb, stopOnError, env, run, fresh, prevClean>>
layerVars == <<vocab, adapted, dims, stamps, out>>
featVars == <<ratings, layerVars>>

\* The movie titles, user ids and timestamps a rating can hold.  The titles
\* include the one the notebook looks up and one without any word in it.
Titles == {"Star Wars (1977)", "Contact (1997)", "???"}
Users == {"42", "7"}
Timestamps == {-1, 874724710, 1500000000}

RatingRows == [movie_title : Titles, user_id : Users, timestamp : Timestamps]

\* tfds.load(...): a non-empty dataset.
Datasets == UNION {[1..n -> RatingRows] : n \in 1..MaxRatings}

VocabLayers == {"movie_title_lookup", "user_id_lookup", "title_text",
                "movie_model.title_text"}
NormalizationLayers == {"timestamp_normalization",
                        "user_model.normalized_timestamp"}
Layers == VocabLayers \cup NormalizationLayers
Embeddings == {"movie_title_embedding", "user_id_embedding",
               "timestamp_embedding", "user_model.user_embedding",
               "user_model.timestamp_embedding", "movie_model.title_embedding",
               "movie_model.title_text_embedding"}

NoLayers ==
    [vocab |-> [l \in VocabLayers |-> <<>>],
     adapted |-> {},
     dims |-> [e \in Embeddings |-> 0],
     stamps |-> [max |-> 0, min |-> 0, start |-> 0, stop |-> 0, num |-> 0],
     out |-> [who |-> "", idx |-> <<>>, text |-> <<>>]]

StoreNames == StoredPaths \cup {"setup_s3_bucket_passed"}

EmptyAcct == [roles |-> {}, policies |-> {}, attached |-> {}]

\* The accounts a run can start from: attachments need the role and the policy.
Accounts ==
    {a \in [roles : SUBSET {RoleName}, policies : SUBSET PolicyNames,
            attached : SUBSET PolicyNames] :
        /\ a.attached \subseteq a.policies
        /\ (a.attached # {} => RoleName \in a.roles)}

\* What the kernel may hold before the first cell: nothing, or names that the
\* DAG notebook reads and never binds.
Environments(n) ==
    IF n = "dag"
    THEN {{}, {"DummyOperator"}, Settings, Settings \cup {"DummyOperator"}}
    ELSE {{}}

FreshNamespace(e) == [n \in Names(nb) |-> IF n \in e THEN "obj" ELSE UNBOUND]

Init ==
    /\ nb \in Notebooks
    /\ stopOnError \in BOOLEAN
    /\ env \in Environments(nb)
    /\ run = 1
    /\ fresh = TRUE
    /\ prevClean = FALSE
    /\ phase = "run"
    /\ pc = 1
    /\ ns = FreshNamespace(env)
    /\ errs = {}
    /\ printed = {}
    /\ calls = <<>>
    /\ iamAcct \in (IF nb = "iam" THEN Accounts ELSE {EmptyAcct})
    /\ bucket \in (IF nb = "s3" THEN {"absent", "mine", "other"} ELSE {"absent"})
    /\ pab \in (IF bucket = "mine" THEN BOOLEAN ELSE {FALSE})
    /\ store = [n \in StoreNames |-> UNBOUND]
    /\ tasks = {}
    /\ edges = {}
    /\ dagrun = "none"
    /\ tstate = [t \in TaskIds |-> "absent"]
    /\ ratings \in (IF nb = "feat" THEN Datasets ELSE {<<>>})
    /\ vocab = NoLayers.vocab
    /\ adapted = NoLayers.adapted
    /\ dims = NoLayers.dims
    /\ stamps = NoLayers.stamps
    /\ out = NoLayers.out

\* ----------------------------------------------------------------- kernel
Prog == Program(nb)
Cur == Prog[pc]
Bound == {n \in DOMAIN ns : ns[n] # UNBOUND}

\* First statement of the cell after the cell of statement i; 0 if none.
NextCellPc(i) ==
    LET later == {j \in (i + 1)..Len(Prog) : Prog[j].cell # Prog[i].cell}
    IN  IF later = {} THEN 0
        ELSE CHOOSE j \in later : \A k \in later : j <= k

\* Where the kernel goes after statement i completed.
AfterStmt(i) ==
    IF i < Len(Prog) THEN [pc |-> i + 1, phase |-> "run"]
    ELSE [pc |-> 0, phase |-> "done"]

\* Where the kernel goes after statement i raised out of its cell.
AfterRaise(i) ==
    IF stopOnError THEN [pc |-> 0, phase |-> "halted"]
    ELSE IF NextCellPc(i) = 0 THEN [pc |-> 0, phase |-> "done"]
    ELSE [pc |-> NextCellPc(i), phase |-> "run"]

Goto(r) == pc' = r.pc /\ phase' = r.phase

Err(exc) == [stmt |-> pc, cell |-> Cur.cell, exc |-> exc]

\* The statement at pc can run: its cell compiles and every name it reads is bound.
Ready(kind) ==
    /\ phase = "run"
    /\ Cur.kind = kind
    /\ ~Cur.syntaxError
    /\ Cur.reads \subseteq Bound

BindAll(names, v) == [n \in DOMAIN ns |-> IF n \in names THEN v ELSE ns[n]]

Call(api, arg, code) == [stmt |-> pc, api |-> api, arg |-> arg, code |-> code]

\* A cell whose source does not compile: nothing of it runs.
SyntaxErrorCell ==
    /\ phase = "run"
    /\ Cur.syntaxError
    /\ errs' = errs \cup {Err("SyntaxError")}
    /\ Goto(AfterRaise(pc))
    /\ UNCHANGED <<ns, printed, calls, serviceVars, dagVars, fixedVars, featVars>>

\* A statement that reads a name the kernel does not hold.
NameErrorStep ==
    /\ phase = "run"
    /\ ~Cur.syntaxError
    /\ ~(Cur.reads \subseteq Bound)
    /\ errs' = errs \cup {Err("NameError")}
    /\ Goto(AfterRaise(pc))
    /\ UNCHANGED <<ns, printed, calls, serviceVars, dagVars, fixedVars, featVars>>

\* Imports, assignments of literals, prints, shell and display cells.
Bind ==
    /\ Ready("bind")
    /\ ns' = BindAll(Cur.binds, Cur.arg)
    /\ Goto(AfterStmt(pc))
    /\ UNCHANGED <<errs, printed, calls, serviceVars, dagVars, fixedVars, featVars>>

\* x_arn = x['...']['Arn']
Copy ==
    /\ Ready("copy")
    /\ ns' = BindAll(Cur.binds, ns[Cur.arg])
    /\ Goto(AfterStmt(pc))
    /\ UNCHANGED <<errs, printed, calls, serviceVars, dagVars, fixedVars, featVars>>

\* -------------------------------------------------------------------- IAM
ArnOf(name) == "arn:aws:iam::account:" \o name

\* iam.create_role: the role is created unless it exists or the call faults.
IamCreateRole(acct, name, fault) ==
    IF fault THEN [code |-> "ServiceFailure", acct |-> acct]
    ELSE IF name \in acct.roles
    THEN [code |-> "EntityAlreadyExists", acct |-> acct]
    ELSE [code |-> "ok", acct |-> [acct EXCEPT !.roles = @ \cup {name}]]

\* iam.create_policy
IamCreatePolicy(acct, name, fault) ==
    IF fault THEN [code |-> "ServiceFailure", acct |-> acct]
    ELSE IF name \in acct.policies
    THEN [code |-> "EntityAlreadyExists", acct |-> acct]
    ELSE [code |-> "ok", acct |-> [acct EXCEPT !.policies = @ \cup {name}]]

\* Mutant: the call answers without attaching anything.
IamAttachRolePolicy_nothing(acct, arn, role, fault) ==
    IF fault THEN [code |-> "ServiceFailure", acct |-> acct]
    ELSE [code |-> "ok", acct |-> acct]

\* iam.attach_role_policy: needs the role and the policy; attaching an
\* attached policy succeeds and changes nothing.
IamAttachRolePolicy(acct, arn, role, fault) ==
    LET named == {p \in acct.policies : ArnOf(p) = arn}
    IN  IF fault THEN [code |-> "ServiceFailure", acct |-> acct]
        ELSE IF role \notin acct.roles \/ named = {}
        THEN [code |-> "NoSuchEntity", acct |-> acct]
        ELSE [code |-> "ok", acct |-> [acct EXCEPT !.attached = @ \cup named]]

\* iam.get_role
IamGetRole(acct, name, fault) ==
    IF fault THEN "ServiceFailure"
    ELSE IF name \in acct.roles THEN "ok" ELSE "NoSuchEntity"

\* Mutant: the handler lets an unexpected error code leave the try block.
ExceptClientError_reraise(code, what, acct) ==
    IF code = "EntityAlreadyExists"
    THEN [msg |-> what, raised |-> FALSE, acct |-> acct]
    ELSE [msg |-> "Unexpected error", raised |-> TRUE, acct |-> acct]

\* Mutant: the handler rolls back what the run created.
ExceptClientError_rollback(code, what, acct) ==
    IF code = "EntityAlreadyExists"
    THEN [msg |-> what, raised |-> FALSE, acct |-> acct]
    ELSE [msg |-> "Unexpected error", raised |-> FALSE, acct |-> EmptyAcct]

\* except ClientError as e: print one of two messages; nothing is raised again
\* and no call is made, so the account stays as the failed call left it.
ExceptClientError(code, what, acct) ==
    IF code = "EntityAlreadyExists"
    THEN [msg |-> what, raised |-> FALSE, acct |-> acct]
    ELSE [msg |-> "Unexpected error", raised |-> FALSE, acct |-> acct]

\* The end of a try/except statement whose call failed with `code`.
Handled(h) ==
    /\ printed' = printed \cup {h.msg}
    /\ iamAcct' = h.acct
    /\ ns' = ns
    /\ IF h.raised
       THEN errs' = errs \cup {Err("ClientError")} /\ Goto(AfterRaise(pc))
       ELSE errs' = errs /\ Goto(AfterStmt(pc))

CreateRole ==
    /\ Ready("create_role")
    /\ \E fault \in BOOLEAN :
         LET name == ns["iam_redshift_role_name"]
             r == IamCreateRole(iamAcct, name, fault)
         IN  /\ calls' = Append(calls, Call("create_role", name, r.code))
             /\ IF r.code = "ok"
                THEN /\ iamAcct' = r.acct
                     /\ ns' = BindAll(Cur.binds, ArnOf(name))
                     /\ Goto(AfterStmt(pc))
                     /\ UNCHANGED <<errs, printed>>
                ELSE Handled(ExceptClientError(r.code, "Role already exists", r.acct))
    /\ UNCHANGED <<bucket, pab, store, dagVars, fixedVars, featVars>>

CreatePolicy ==
    /\ Ready("create_policy")
    /\ \E fault \in BOOLEAN :
         LET name == Cur.arg
             r == IamCreatePolicy(iamAcct, name, fault)
         IN  /\ calls' = Append(calls, Call("create_policy", name, r.code))
             /\ IF r.code = "ok"
                THEN /\ iamAcct' = r.acct
                     /\ ns' = BindAll(Cur.binds, ArnOf(name))
                     /\ Goto(AfterStmt(pc))
                     /\ UNCHANGED <<errs, printed>>
                ELSE Handled(ExceptClientError(r.code, "Policy already exists", r.acct))
    /\ UNCHANGED <<bucket, pab, store, dagVars, fixedVars, featVars>>

AttachRolePolicy ==
    /\ Ready("attach_role_policy")
    /\ \E fault \in BOOLEAN :
         LET arn == ns[Cur.arg]
             r == IamAttachRolePolicy(iamAcct, arn,
                                      ns["iam_redshift_role_name"], fault)
         IN  /\ calls' = Append(calls, Call("attach_role_policy", arn, r.code))
             /\ IF r.code = "ok"
                THEN /\ iamAcct' = r.acct
                     /\ ns' = BindAll(Cur.binds, "obj")
                     /\ Goto(AfterStmt(pc))
                     /\ UNCHANGED <<errs, printed>>
                ELSE Handled(ExceptClientError(r.code, "Policy is already attached",
                                              r.acct))
    /\ UNCHANGED <<bucket, pab, store, dagVars, fixedVars, featVars>>

\* Mutant: the role is asked for under another name.
GetRoleName_other == "DSOAWS_Redshift_Role"

\* iam.get_role(RoleName='DSOAWS_Redshift'): the name is written out.
GetRoleName == "DSOAWS_Redshift"

\* role = iam.get_role(...); role_arn = role['Role']['Arn']: no handler.
GetRole ==
    /\ Ready("get_role")
    /\ \E fault \in BOOLEAN :
         LET code == IamGetRole(iamAcct, GetRoleName, fault)
         IN  /\ calls' = Append(calls, Call("get_role", GetRoleName, code))
             /\ IF code = "ok"
                THEN /\ ns' = [BindAll({"role"}, "obj")
                                 EXCEPT !["role_arn"] = ArnOf(GetRoleName)]
                     /\ Goto(AfterStmt(pc))
                     /\ errs' = errs
                ELSE /\ ns' = ns
                     /\ errs' = errs \cup {Err("ClientError")}
                     /\ Goto(AfterRaise(pc))
    /\ UNCHANGED <<printed, serviceVars, dagVars, fixedVars, featVars>>

\* --------------------------------------------------------------------- S3
\* The codes s3.create_bucket can answer with.  A bucket the caller owns is
\* answered "ok" in us-east-1 and BucketAlreadyOwnedByYou elsewhere.
CreateBucketCodes(b) ==
    CASE b = "absent" -> {"ok", "AccessDenied"}
      [] b = "mine" -> {"ok", "BucketAlreadyOwnedByYou", "AccessDenied"}
      [] OTHER -> {"BucketAlreadyExists", "AccessDenied"}

PutPublicAccessBlockCodes(b) ==
    CASE b = "absent" -> {"NoSuchBucket"}
      [] b = "mine" -> {"ok", "AccessDenied"}
      [] OTHER -> {"AccessDenied"}

HeadBucketCodes(b) ==
    CASE b = "absent" -> {"404"}
      [] b = "mine" -> {"ok", "403"}
      [] OTHER -> {"403"}

\* Mutant: the failure of the call is swallowed and the cell goes on.
Uncaught_swallowed ==
    /\ errs' = errs
    /\ Goto(AfterStmt(pc))

\* An exception of a call that no try statement encloses: it leaves the cell.
Uncaught ==
    /\ errs' = errs \cup {Err("ClientError")}
    /\ Goto(AfterRaise(pc))

\* account_id = boto3.client("sts").get_caller_identity().get("Account"):
\* no handler.
GetCallerIdentity ==
    /\ Ready("get_caller_identity")
    /\ \E code \in {"ok", "AccessDenied"} :
         /\ calls' = Append(calls, Call("get_caller_identity", "", code))
         /\ IF code = "ok"
            THEN /\ ns' = BindAll(Cur.binds, "obj")
                 /\ errs' = errs
                 /\ Goto(AfterStmt(pc))
            ELSE /\ ns' = ns
                 /\ Uncaught
    /\ UNCHANGED <<printed, serviceVars, dagVars, fixedVars, featVars>>

\* s3.create_bucket(Bucket=airflow_bucket_name): no handler.
CreateBucket ==
    /\ Ready("create_bucket")
    /\ \E code \in CreateBucketCodes(bucket) :
         /\ calls' = Append(calls, Call("create_bucket",
                                        ns["airflow_bucket_name"], code))
         /\ IF code = "ok"
            THEN bucket' = "mine" /\ errs' = errs /\ Goto(AfterStmt(pc))
            ELSE bucket' = bucket /\ Uncaught
    /\ UNCHANGED <<ns, printed, iamAcct, pab, store, dagVars, fixedVars, featVars>>

\* Mutant: the configuration leaves one of the four flags False.
PutPublicAccessBlock_partial ==
    /\ Ready("put_public_access_block")
    /\ \E code \in PutPublicAccessBlockCodes(bucket) :
         /\ calls' = Append(calls, Call("put_public_access_block",
                                        ns["airflow_bucket_name"], code))
         /\ IF code = "ok"
            THEN /\ pab' = FALSE
                 /\ ns' = BindAll(Cur.binds, "obj")
                 /\ errs' = errs
                 /\ Goto(AfterStmt(pc))
            ELSE /\ pab' = pab
                 /\ ns' = ns
                 /\ Uncaught
    /\ UNCHANGED <<printed, iamAcct, bucket, store, dagVars, fixedVars, featVars>>

\* response = s3.put_public_access_block(...): all four flags True; no handler.
PutPublicAccessBlock ==
    /\ Ready("put_public_access_block")
    /\ \E code \in PutPublicAccessBlockCodes(bucket) :
         /\ calls' = Append(calls, Call("put_public_access_block",
                                        ns["airflow_bucket_name"], code))
         /\ IF code = "ok"
            THEN /\ pab' = TRUE
                 /\ ns' = BindAll(Cur.binds, "obj")
                 /\ errs' = errs
                 /\ Goto(AfterStmt(pc))
            ELSE /\ pab' = pab
                 /\ ns' = ns
                 /\ Uncaught
    /\ UNCHANGED <<printed, iamAcct, bucket, store, dagVars, fixedVars, featVars>>

\* Mutant: the flag is set before the call.
HeadBucketFlag_early(code) == "True"

\* The value of setup_s3_bucket_passed after the try statement of the
\* verification cell: the assignment follows the call inside the try block.
HeadBucketFlag(code) ==
    IF code = "ok" THEN "True" ELSE ns["setup_s3_bucket_passed"]

\* Mutant: the verification cell has no handler.
HeadBucket_uncaught ==
    /\ Ready("head_bucket")
    /\ \E code \in HeadBucketCodes(bucket) :
         /\ calls' = Append(calls, Call("head_bucket",
                                        ns["airflow_bucket_name"], code))
         /\ IF code = "ok"
            THEN /\ ns' = [ns EXCEPT !["response"] = "obj",
                                     !["setup_s3_bucket_passed"] = "True"]
                 /\ errs' = errs
                 /\ Goto(AfterStmt(pc))
            ELSE /\ ns' = ns
                 /\ Uncaught
    /\ UNCHANGED <<printed, serviceVars, dagVars, fixedVars, featVars>>

\* try: response = s3.head_bucket(...); setup_s3_bucket_passed = True
\* except ClientError: print
HeadBucket ==
    /\ Ready("head_bucket")
    /\ \E code \in HeadBucketCodes(bucket) :
         /\ calls' = Append(calls, Call("head_bucket",
                                        ns["airflow_bucket_name"], code))
         /\ ns' = [ns EXCEPT
                     !["response"] = IF code = "ok" THEN "obj" ELSE @,
                     !["setup_s3_bucket_passed"] = HeadBucketFlag(code)]
         /\ printed' = IF code = "ok" THEN printed
                       ELSE printed \cup {"[ERROR] Cannot find bucket"}
    /\ Goto(AfterStmt(pc))
    /\ UNCHANGED <<errs, serviceVars, dagVars, fixedVars, featVars>>

\* %store name: writes the variable's value to the database; an unknown
\* variable is a UsageError.
Store ==
    /\ Ready("store")
    /\ IF ns[Cur.arg] = UNBOUND
       THEN /\ errs' = errs \cup {Err("UsageError")}
            /\ Goto(AfterRaise(pc))
            /\ store' = store
       ELSE /\ store' = [store EXCEPT ![Cur.arg] = ns[Cur.arg]]
            /\ errs' = errs
            /\ Goto(AfterStmt(pc))
    /\ UNCHANGED <<ns, printed, calls, iamAcct, bucket, pab, dagVars,
                   fixedVars, featVars>>

\* ---------------------------------------------------- the DAG definition
\* dag = DAG('bert_reviews', ...): a new DAG object, without tasks.
NewDag ==
    /\ Ready("new_dag")
    /\ ns' = BindAll(Cur.binds, Cur.arg)
    /\ tasks' = {}
    /\ edges' = {}
    /\ Goto(AfterStmt(pc))
    /\ UNCHANGED <<errs, printed, calls, serviceVars, dagrun, tstate,
                   fixedVars, featVars>>

\* x = SomeOperator(task_id=..., dag=dag): the task joins the DAG.
Operator ==
    /\ Ready("operator")
    /\ ns' = BindAll(Cur.binds, Cur.arg)
    /\ tasks' = tasks \cup {Cur.arg}
    /\ Goto(AfterStmt(pc))
    /\ UNCHANGED <<errs, printed, calls, serviceVars, edges, dagrun, tstate,
                   fixedVars, featVars>>

\* Mutant: the dependency is recorded the wrong way round.
UpstreamEdge_reversed(x, y) == <<x, y>>

\* x.set_upstream(y): y runs before x.
UpstreamEdge(x, y) == <<y, x>>

\* x.set_downstream(y): x runs before y.
DownstreamEdge(x, y) == <<x, y>>

\* Both tasks must belong to the DAG the kernel holds now.
Relate(edge) ==
    /\ IF {ns[Cur.arg], ns[Cur.arg2]} \subseteq tasks
       THEN edges' = edges \cup {edge} /\ errs' = errs /\ Goto(AfterStmt(pc))
       ELSE edges' = edges /\ errs' = errs \cup {Err("AirflowException")}
            /\ Goto(AfterRaise(pc))
    /\ UNCHANGED <<ns, printed, calls, serviceVars, tasks, dagrun, tstate,
                   fixedVars, featVars>>

SetUpstream ==
    /\ Ready("set_upstream")
    /\ Relate(UpstreamEdge(ns[Cur.arg], ns[Cur.arg2]))

SetDownstream ==
    /\ Ready("set_downstream")
    /\ Relate(DownstreamEdge(ns[Cur.arg], ns[Cur.arg2]))

\* ---------------------------------------------------------- preprocessing
\* ratings.map(lambda x: x[feature])
Column(feature) == [i \in 1..Len(ratings) |-> ratings[i][feature]]

\* The inputs the notebook writes out in its calls.
LiteralTitles == <<"Star Wars (1977)", "One Flew Over the Cuckoo's Nest (1975)">>
LiteralTitle == <<"Star Wars (1977)">>
LiteralUser == <<"42">>

\* Every string a layer can meet, in descending byte order: the order in
\* which a vocabulary lists tokens that are equally frequent.
TokenOrder == <<"wars", "star", "contact", "Star Wars (1977)",
                "One Flew Over the Cuckoo's Nest (1975)", "Contact (1997)",
                "???", "7", "42", "1997", "1977">>

Rank(x) == CHOOSE i \in 1..Len(TokenOrder) : TokenOrder[i] = x

\* TextVectorization's default standardization and split: lower case, no
\* punctuation, split at white space.
Words(text) ==
    CASE text = "Star Wars (1977)" -> <<"star", "wars", "1977">>
      [] text = "Contact (1997)" -> <<"contact", "1997">>
      [] text = "???" -> <<>>
      [] OTHER -> <<text>>

RECURSIVE Flatten(_)
Flatten(seqs) ==
    IF seqs = <<>> THEN <<>> ELSE Head(seqs) \o Flatten(Tail(seqs))

Count(x, seq) == Cardinality({i \in 1..Len(seq) : seq[i] = x})

\* x is listed before y: more frequent, or as frequent and later in byte order.
Before(x, y, seq) ==
    \/ Count(x, seq) > Count(y, seq)
    \/ Count(x, seq) = Count(y, seq) /\ Rank(x) < Rank(y)

\* The distinct tokens of the data, most frequent first.
SortedTokens(seq) ==
    LET D == RangeOf(seq)
    IN  [k \in 1..Cardinality(D) |->
            CHOOSE x \in D : Cardinality({y \in D : Before(y, x, seq)}) = k - 1]

\* Index 0 is the mask token, index 1 the out-of-vocabulary token.
Reserved == <<"", "[UNK]">>

LayerKind(l) ==
    CASE l \in {"movie_title_lookup", "user_id_lookup"} -> "StringLookup"
      [] l \in {"title_text", "movie_model.title_text"} -> "TextVectorization"
      [] OTHER -> "Normalization"

\* max_tokens of a text layer; 0 stands for None (no limit).
MaxTokensOf(l) == IF l = "movie_model.title_text" THEN MaxTokens ELSE 0

Truncate(v, n) == IF n = 0 \/ Len(v) <= n THEN v ELSE SubSeq(v, 1, n)

\* layer.adapt(ratings.map(lambda x: x[feature])): the vocabulary the layer
\* holds afterwards.
AdaptVocabulary(l, feature) ==
    LET data == Column(feature)
        tokens == IF LayerKind(l) = "TextVectorization"
                  THEN Flatten([i \in 1..Len(data) |-> Words(data[i])])
                  ELSE data
    IN  Truncate(Reserved \o SortedTokens(tokens), MaxTokensOf(l))

\* The index a layer with vocabulary v gives to x.
IndexOf(v, x) ==
    IF \E i \in 1..Len(v) : v[i] = x
    THEN (CHOOSE i \in 1..Len(v) : v[i] = x) - 1
    ELSE 1

LookupAll(v, xs) == [i \in 1..Len(xs) |-> IndexOf(v, xs[i])]

\* layer.vocab_size(): the reserved tokens count.
VocabSize(v) == Len(v)

Longest(seqs) ==
    IF seqs = <<>> THEN 0
    ELSE CHOOSE n \in {Len(seqs[i]) : i \in 1..Len(seqs)} :
            \A i \in 1..Len(seqs) : Len(seqs[i]) <= n

\* TextVectorization applied to a batch of texts: one row of token indices
\* per text, padded with 0 to the longest row of the batch.
Vectorize(v, batch) ==
    LET rows == [k \in 1..Len(batch) |-> LookupAll(v, Words(batch[k]))]
    IN  [k \in 1..Len(batch) |->
            [i \in 1..Longest(rows) |->
                IF i <= Len(rows[k]) THEN rows[k][i] ELSE 0]]

\* Embedding.compute_mask: with mask_zero the positions holding index 0.
Masked(row) == {i \in 1..Len(row) : MaskZero /\ row[i] = 0}

\* GlobalAveragePooling1D over one row of embedded tokens: the mean of the
\* embedding rows at the positions that are not masked, held as the sequence
\* of the indices of the rows the mean is taken over.
RECURSIVE Averaged(_, _)
Averaged(row, i) ==
    IF i > Len(row) THEN <<>>
    ELSE (IF i \in Masked(row) THEN <<>> ELSE <<row[i]>>) \o Averaged(row, i + 1)

\* title_text_embedding of a batch of titles: one averaged vector per title.
TitleTextEmbedding(v, batch) ==
    LET rows == Vectorize(v, batch)
    IN  [k \in 1..Len(rows) |-> Averaged(rows[k], 1)]

Maximum(a, b) == IF a >= b THEN a ELSE b
Minimum(a, b) == IF a <= b THEN a ELSE b

\* dataset.reduce(seed, tf.maximum | tf.minimum)
RECURSIVE Reduce(_, _, _)
Reduce(acc, fn, seq) ==
    IF seq = <<>> THEN acc
    ELSE Reduce(IF fn = "max" THEN Maximum(acc, Head(seq))
                ELSE Minimum(acc, Head(seq)), fn, Tail(seq))

\* The i-th of the b.num values of np.linspace(b.start, b.stop, num=b.num),
\* as whole + part / (b.num - 1) with 0 <= part < b.num - 1.
Boundary(b, i) ==
    LET d == b.num - 1
        span == b.stop - b.start
        q == span \div d
        r == span % d
    IN  [whole |-> b.start + (i - 1) * q + ((i - 1) * r) \div d,
         part |-> ((i - 1) * r) % d]

\* The i-th boundary is not above x.
NotAbove(b, i, x) ==
    LET y == Boundary(b, i)
    IN  y.whole < x \/ (y.whole = x /\ y.part = 0)

\* The number of boundaries not above x, by bisection of the sorted
\* boundaries: boundaries 1..lo are not above x, those after hi are.
RECURSIVE Bisect(_, _, _, _)
Bisect(b, x, lo, hi) ==
    IF lo >= hi THEN lo
    ELSE LET mid == (lo + hi + 1) \div 2
         IN  IF NotAbove(b, mid, x) THEN Bisect(b, x, mid, hi)
             ELSE Bisect(b, x, lo, mid - 1)

\* Discretization(boundaries)(x): the bucket of x.
Discretize(b, x) == Bisect(b, x, 0, b.num)

\* Mutant: the table has one row per token of the data and none for the
\* reserved tokens.
InputDim_tokens(src) ==
    CASE src = "num_hashing_bins" -> NumHashingBins
      [] src = "max_tokens" -> MaxTokens
      [] src = "buckets+1" -> stamps.num + 1
      [] src = "buckets+2" -> stamps.num + 2
      [] OTHER -> Len(vocab[src]) - Len(Reserved)

\* input_dim of an embedding, from the expression the notebook writes.
InputDim(src) ==
    CASE src = "num_hashing_bins" -> NumHashingBins
      [] src = "max_tokens" -> MaxTokens
      [] src = "buckets+1" -> stamps.num + 1
      [] src = "buckets+2" -> stamps.num + 2
      [] OTHER -> VocabSize(vocab[src])

\* The rows a call reads: ratings.take(n), or ratings.batch(1).take(n).
Take(n) == SubSeq(ratings, 1, Minimum(n, Len(ratings)))
TakeColumn(n, feature) == [i \in 1..Len(Take(n)) |-> Take(n)[i][feature]]

\* x = StringLookup() | TextVectorization(...) | Normalization(): a layer that
\* has not seen any data.
NewLayer ==
    /\ Ready("new_layer")
    /\ vocab' = IF Cur.arg \in VocabLayers
                THEN [vocab EXCEPT ![Cur.arg] = Reserved] ELSE vocab
    /\ adapted' = adapted \ {Cur.arg}
    /\ ns' = BindAll(Cur.binds, "obj")
    /\ Goto(AfterStmt(pc))
    /\ UNCHANGED <<errs, printed, calls, serviceVars, dagVars, fixedVars,
                   ratings, dims, stamps, out>>

\* Mutant: the adapt call is left out.
Adapt_forgotten ==
    /\ Ready("adapt")
    /\ Goto(AfterStmt(pc))
    /\ UNCHANGED <<ns, errs, printed, calls, serviceVars, dagVars, fixedVars,
                   featVars>>

\* layer.adapt(ratings.map(lambda x: x[feature]))
Adapt ==
    /\ Ready("adapt")
    /\ vocab' = IF Cur.arg \in VocabLayers
                THEN [vocab EXCEPT ![Cur.arg] = AdaptVocabulary(Cur.arg, Cur.arg2)]
                ELSE vocab
    /\ adapted' = adapted \cup {Cur.arg}
    /\ Goto(AfterStmt(pc))
    /\ UNCHANGED <<ns, errs, printed, calls, serviceVars, dagVars, fixedVars,
                   ratings, dims, stamps, out>>

\* layer(inputs), displayed or printed.
CallLayer ==
    /\ Ready("call")
    /\ out' = [who |-> Cur.arg,
               idx |-> IF Cur.arg2 = "titles"
                       THEN LookupAll(vocab[Cur.arg], LiteralTitles) ELSE <<>>,
               text |-> IF LayerKind(Cur.arg) = "TextVectorization"
                        THEN Vectorize(vocab[Cur.arg],
                                       TakeColumn(1, MovieTitleFeature))
                        ELSE <<>>]
    /\ Goto(AfterStmt(pc))
    /\ UNCHANGED <<ns, errs, printed, calls, serviceVars, dagVars, fixedVars,
                   ratings, vocab, adapted, dims, stamps>>

\* x = tf.keras.layers.Embedding(input_dim, 32)
NewEmbedding ==
    /\ Ready("embedding")
    /\ dims' = [dims EXCEPT ![Cur.arg] = InputDim(Cur.arg2)]
    /\ ns' = BindAll(Cur.binds, "obj")
    /\ Goto(AfterStmt(pc))
    /\ UNCHANGED <<errs, printed, calls, serviceVars, dagVars, fixedVars,
                   ratings, vocab, adapted, stamps, out>>

\* max_timestamp = ...reduce(0, tf.maximum); min_timestamp = ...reduce(1e9,
\* tf.minimum)
ReduceTimestamps ==
    /\ Ready("reduce")
    /\ stamps' = IF Cur.arg = "max"
                 THEN [stamps EXCEPT
                         !.max = Reduce(MaxSeed, "max", Column(TimestampFeature))]
                 ELSE [stamps EXCEPT
                         !.min = Reduce(MinSeed, "min", Column(TimestampFeature))]
    /\ ns' = BindAll(Cur.binds, "obj")
    /\ Goto(AfterStmt(pc))
    /\ UNCHANGED <<errs, printed, calls, serviceVars, dagVars, fixedVars,
                   ratings, vocab, adapted, dims, out>>

\* timestamp_buckets = np.linspace(min_timestamp, max_timestamp, num=1000)
Linspace ==
    /\ Ready("linspace")
    /\ stamps' = [stamps EXCEPT !.start = stamps.min, !.stop = stamps.max,
                                !.num = NumBuckets]
    /\ ns' = BindAll(Cur.binds, "obj")
    /\ Goto(AfterStmt(pc))
    /\ UNCHANGED <<errs, printed, calls, serviceVars, dagVars, fixedVars,
                   ratings, vocab, adapted, dims, out>>

\* The preprocessing layers a model passes its inputs through.
LayersOf(model) ==
    CASE model = "movie_title_model" -> {"movie_title_lookup"}
      [] model = "user_id_model" -> {"user_id_lookup"}
      [] model = "timestamp_embedding_model" -> {}
      [] model = "user_model" ->
           {"user_id_lookup", "user_model.normalized_timestamp"}
      [] OTHER -> {"movie_title_lookup", "movie_model.title_text"}

\* The layers a statement calls, or reads the vocabulary size of.
LayersUsed(s) ==
    CASE s.kind = "call" -> {s.arg}
      [] s.kind = "call_model" -> LayersOf(s.arg)
      [] s.kind = "embedding" -> {s.arg2} \cap Layers
      [] OTHER -> {}

\* The embedding rows a call of a model reads: <<embedding, index>>.
RowsRead(model) ==
    CASE model = "movie_title_model" ->
           {<<"movie_title_embedding",
              IndexOf(vocab["movie_title_lookup"], LiteralTitle[1])>>}
      [] model = "user_id_model" ->
           {<<"user_id_embedding",
              IndexOf(vocab["user_id_lookup"], LiteralUser[1])>>}
      [] model = "timestamp_embedding_model" ->
           {<<"timestamp_embedding", Discretize(stamps, ratings[1].timestamp)>>}
      [] model = "user_model" ->
           {<<"user_model.user_embedding",
              IndexOf(vocab["user_id_lookup"], ratings[1].user_id)>>,
            <<"user_model.timestamp_embedding",
              Discretize(stamps, ratings[1].timestamp)>>}
      [] OTHER ->
           {<<"movie_model.title_embedding",
              IndexOf(vocab["movie_title_lookup"], t)>> :
                t \in RangeOf(TakeColumn(2, MovieTitleFeature))}
           \cup {<<"movie_model.title_text_embedding", i>> :
                    i \in UNION {RangeOf(Words2Idx) : Words2Idx \in
                        {LookupAll(vocab["movie_model.title_text"], Words(t)) :
                            t \in RangeOf(TakeColumn(2, MovieTitleFeature))}}}

\* What the call returns when every row it reads exists.
ModelOutput(model) ==
    CASE model = "movie_title_model" ->
           [who |-> model,
            idx |-> LookupAll(vocab["movie_title_lookup"], LiteralTitle),
            text |-> <<>>]
      [] model = "user_id_model" ->
           [who |-> model,
            idx |-> LookupAll(vocab["user_id_lookup"], LiteralUser),
            text |-> <<>>]
      [] model = "timestamp_embedding_model" ->
           [who |-> model,
            idx |-> <<Discretize(stamps, ratings[1].timestamp)>>,
            text |-> <<>>]
      [] model = "user_model" ->
           [who |-> model,
            idx |-> <<IndexOf(vocab["user_id_lookup"], ratings[1].user_id),
                      Discretize(stamps, ratings[1].timestamp)>>,
            text |-> <<>>]
      [] OTHER ->
           [who |-> model,
            idx |-> LookupAll(vocab["movie_title_lookup"],
                              TakeColumn(2, MovieTitleFeature)),
            text |-> Flatten([k \in 1..Len(Take(2)) |->
                        TitleTextEmbedding(vocab["movie_model.title_text"],
                                           <<Take(2)[k].movie_title>>)])]

\* model(inputs): an index that is not a row of its embedding is an error.
CallModel ==
    /\ Ready("call_model")
    /\ IF \A r \in RowsRead(Cur.arg) : r[2] \in 0..(dims[r[1]] - 1)
       THEN /\ out' = ModelOutput(Cur.arg)
            /\ errs' = errs
            /\ Goto(AfterStmt(pc))
       ELSE /\ out' = out
            /\ errs' = errs \cup {Err("InvalidArgumentError")}
            /\ Goto(AfterRaise(pc))
    /\ UNCHANGED <<ns, printed, calls, serviceVars, dagVars, fixedVars,
                   ratings, vocab, adapted, dims, stamps>>

\* ------------------------------------------------------------------- runs
Ended == phase \in {"done", "halted"}

\* The run passed every cell without an exception and every call succeeded.
CleanRun ==
    /\ phase = "done"
    /\ errs = {}
    /\ \A i \in 1..Len(calls) : calls[i].code = "ok"

\* The notebook is run again after a kernel restart: the namespace and the
\* DAG object are gone; the services and the %store database stay.
RestartKernel ==
    /\ Ended
    /\ run < MaxRuns
    /\ dagrun = "none"
    /\ run' = run + 1
    /\ fresh' = TRUE
    /\ prevClean' = CleanRun
    /\ ns' = FreshNamespace(env)
    /\ tasks' = {}
    /\ edges' = {}
    /\ pc' = 1
    /\ phase' = "run"
    /\ errs' = {}
    /\ printed' = {}
    /\ calls' = <<>>
    /\ vocab' = NoLayers.vocab
    /\ adapted' = NoLayers.adapted
    /\ dims' = NoLayers.dims
    /\ stamps' = NoLayers.stamps
    /\ out' = NoLayers.out
    /\ UNCHANGED <<nb, stopOnError, env, serviceVars, dagrun, tstate, ratings>>

\* The notebook is run again in the same kernel: every name stays bound.
RerunSameKernel ==
    /\ Ended
    /\ run < MaxRuns
    /\ dagrun = "none"
    /\ run' = run + 1
    /\ fresh' = FALSE
    /\ prevClean' = CleanRun
    /\ pc' = 1
    /\ phase' = "run"
    /\ errs' = {}
    /\ printed' = {}
    /\ calls' = <<>>
    /\ UNCHANGED <<nb, stopOnError, env, ns, serviceVars, dagVars, featVars>>

\* -------------------------------------------------------------- scheduler
Upstream(t) == {u \in tasks : <<u, t>> \in edges}

\* Mutant: a task is started as soon as one of its upstream tasks, or none,
\* has succeeded.
Runnable_any(t) ==
    /\ tstate[t] = "scheduled"
    /\ (Upstream(t) = {} \/ \E u \in Upstream(t) : tstate[u] # "failed")

\* The default trigger rule: every upstream task has succeeded.
Runnable(t) ==
    /\ tstate[t] = "scheduled"
    /\ \A u \in Upstream(t) : tstate[u] = "success"

\* schedule_interval='@once': the DAG the kernel holds is run once.
TriggerDag ==
    /\ nb = "dag"
    /\ Ended
    /\ dagrun = "none"
    /\ ns["dag"] # UNBOUND
    /\ dagrun' = "running"
    /\ tstate' = [t \in TaskIds |-> IF t \in tasks THEN "scheduled" ELSE "absent"]
    /\ UNCHANGED <<kernelVars, serviceVars, tasks, edges, fixedVars, featVars>>

StartTask ==
    /\ dagrun = "running"
    /\ \E t \in tasks :
         /\ Runnable(t)
         /\ tstate' = [tstate EXCEPT ![t] = "running"]
    /\ UNCHANGED <<kernelVars, serviceVars, tasks, edges, dagrun, fixedVars, featVars>>

\* wait_for_completion=True: the task ends when its managed job has ended.
FinishTask ==
    /\ dagrun = "running"
    /\ \E t \in tasks, result \in {"success", "failed"} :
         /\ tstate[t] = "running"
         /\ tstate' = [tstate EXCEPT ![t] = result]
    /\ UNCHANGED <<kernelVars, serviceVars, tasks, edges, dagrun, fixedVars, featVars>>

\* A task below a failed task is never started.
UpstreamFailed ==
    /\ dagrun = "running"
    /\ \E t \in tasks :
         /\ tstate[t] = "scheduled"
         /\ \E u \in Upstream(t) : tstate[u] \in {"failed", "upstream_failed"}
         /\ tstate' = [tstate EXCEPT ![t] = "upstream_failed"]
    /\ UNCHANGED <<kernelVars, serviceVars, tasks, edges, dagrun, fixedVars, featVars>>

EndDagRun ==
    /\ dagrun = "running"
    /\ \A t \in tasks : tstate[t] \in {"success", "failed", "upstream_failed"}
    /\ dagrun' = "over"
    /\ UNCHANGED <<kernelVars, serviceVars, tasks, edges, tstate, fixedVars, featVars>>

\* ---------------------------------------------------------- specification
Next ==
    \/ SyntaxErrorCell
    \/ NameErrorStep
    \/ Bind
    \/ Copy
    \/ CreateRole
    \/ CreatePolicy
    \/ AttachRolePolicy
    \/ GetRole
    \/ GetCallerIdentity
    \/ CreateBucket
    \/ PutPublicAccessBlock
    \/ HeadBucket
    \/ Store
    \/ NewDag
    \/ Operator
    \/ SetUpstream
    \/ SetDownstream
    \/ NewLayer
    \/ Adapt
    \/ CallLayer
    \/ NewEmbedding
    \/ ReduceTimestamps
    \/ Linspace
    \/ CallModel
    \/ RestartKernel
    \/ RerunSameKernel
    \/ TriggerDag
    \/ StartTask
    \/ FinishTask
    \/ UpstreamFailed
    \/ EndDagRun

Spec == Init /\ [][Next]_vars

\* ----------------------------------------------------------------- claims
Chain == {<<"start", "process">>, <<"process", "train">>,
          <<"train", "model">>, <<"model", "deploy">>}

Started == {"running", "success", "failed"}
Finished == {"success", "failed"}

CallIdx == 1..Len(calls)
Made(api) == {i \in CallIdx : calls[i].api = api}
MadeOk(api) == {i \in Made(api) : calls[i].code = "ok"}
FailedCalls == {i \in CallIdx : calls[i].code # "ok"}
RaisedAt(stmt) == {e \in errs : e.stmt = stmt}

FullAcct == [roles |-> {RoleName}, policies |-> PolicyNames,
             attached |-> PolicyNames]

\* C1: after the DAG-definition notebook has run top to bottom, the DAG has
\* exactly the five tasks and exactly the four edges of the chain
\* start -> process -> train -> model -> deploy.
C1_Claim ==
    (nb = "dag" /\ Ended) => (tasks = TaskIds /\ edges = Chain)

\* C2: in a DAG run no task of the chain start, process, train, model,
\* deploy is started before the task preceding it in the chain has finished.
C2_Claim ==
    nb = "dag" =>
        \A e \in Chain : tstate[e[2]] \in Started => tstate[e[1]] \in Finished

\* C3: a run in which create_role fails with EntityAlreadyExists, and nothing
\* else fails, goes on as after a successful creation: every cell passes, the
\* role's ARN is obtained and both policies are attached.
C3_Claim ==
    ( /\ nb = "iam"
      /\ Ended
      /\ \E i \in Made("create_role") : calls[i].code = "EntityAlreadyExists"
      /\ FailedCalls \subseteq Made("create_role") )
    => ( /\ phase = "done"
         /\ errs = {}
         /\ ns["iam_role_redshift_arn"] = ArnOf(RoleName)
         /\ \A p \in PolicyNames :
              \E i \in MadeOk("attach_role_policy") : calls[i].arg = ArnOf(p) )

\* C4: a run in which create_policy fails with EntityAlreadyExists, and
\* nothing else fails, passes the rest of the cell and the following cell, and
\* attaches that policy to the role.
C4_Claim ==
    ( /\ nb = "iam"
      /\ Ended
      /\ \E i \in Made("create_policy") : calls[i].code = "EntityAlreadyExists"
      /\ \A i \in FailedCalls : /\ calls[i].api = "create_policy"
                                /\ calls[i].code = "EntityAlreadyExists" )
    => ( /\ phase = "done"
         /\ errs = {}
         /\ \A i \in Made("create_policy") :
              \E j \in MadeOk("attach_role_policy") :
                  calls[j].arg = ArnOf(calls[i].arg) )

\* C5: a second top-to-bottom run, in a fresh kernel and on the account left
\* by a first complete run, passes every cell and leaves the role, the two
\* policies and both attachments.
C5_Claim ==
    ( /\ nb = "iam"
      /\ run >= 2
      /\ fresh
      /\ prevClean
      /\ Ended
      /\ \A i \in CallIdx : calls[i].code # "ServiceFailure" )
    => (phase = "done" /\ errs = {} /\ iamAcct = FullAcct)

AlreadyExistsCodes == {"BucketAlreadyOwnedByYou", "BucketAlreadyExists"}

\* C6 (as stated): when create_bucket fails because the bucket already exists,
\* the run goes on to put_public_access_block and to head_bucket.
C6_Claim ==
    ( /\ nb = "s3"
      /\ Ended
      /\ \E i \in Made("create_bucket") : calls[i].code \in AlreadyExistsCodes )
    => (Made("put_public_access_block") # {} /\ Made("head_bucket") # {})

\* C6 (amended): create_bucket has no handler.  When it fails, also because
\* the bucket already exists, the ClientError leaves the cell, so
\* put_public_access_block is not called in that run; a run that stops at the
\* first aborted cell ends there, before head_bucket.
C6_Amended ==
    nb = "s3" =>
        \A i \in Made("create_bucket") :
            calls[i].code # "ok" =>
                /\ \E e \in RaisedAt(calls[i].stmt) : e.exc = "ClientError"
                /\ Made("put_public_access_block") = {}
                /\ stopOnError =>
                       (phase = "halted" /\ Made("head_bucket") = {})

C6_Witness ==
    /\ nb = "s3"
    /\ Ended
    /\ \E i \in Made("create_bucket") :
           calls[i].code = "BucketAlreadyOwnedByYou"
    /\ errs # {}

CreationApis == {"create_role", "create_policy", "attach_role_policy"}

\* C7: a creation call of the IAM notebook that fails with a code other than
\* EntityAlreadyExists is only reported: no statement issues its call twice
\* in a run, and no exception leaves the try statement of the failed call.
C7_Theorem ==
    nb = "iam" =>
        /\ \A i, j \in CallIdx : calls[i].stmt = calls[j].stmt => i = j
        /\ \A i \in CallIdx :
             ( /\ calls[i].api \in CreationApis
               /\ calls[i].code \notin {"ok", "EntityAlreadyExists"} )
             => (RaisedAt(calls[i].stmt) = {} /\ "Unexpected error" \in printed)

C7_Witness ==
    /\ nb = "iam"
    /\ Ended
    /\ \A api \in CreationApis :
         \E i \in Made(api) : calls[i].code = "ServiceFailure"

IamApis == CreationApis \cup {"get_role"}

\* C8: the IAM notebook never rolls back: it issues no call other than
\* create_role, get_role, create_policy and attach_role_policy, and whatever
\* a call of the run created is still in the account, whatever failed later.
C8_Theorem ==
    nb = "iam" =>
        /\ \A i \in CallIdx : calls[i].api \in IamApis
        /\ \A i \in MadeOk("create_role") : calls[i].arg \in iamAcct.roles
        /\ \A i \in MadeOk("create_policy") : calls[i].arg \in iamAcct.policies
        /\ \A i \in MadeOk("attach_role_policy") :
             \E p \in iamAcct.attached : ArnOf(p) = calls[i].arg

C8_Witness ==
    /\ nb = "iam"
    /\ Ended
    /\ MadeOk("create_role") # {}
    /\ MadeOk("create_policy") # {}
    /\ MadeOk("attach_role_policy") # {}
    /\ \E i \in FailedCalls : calls[i].code = "ServiceFailure"
    /\ errs # {}

StorageOrder == <<"create_bucket", "put_public_access_block", "head_bucket">>

\* The storage calls of the run are made in StorageOrder, each at most once.
S3CallsInOrder ==
    \A i, j \in CallIdx : \A k, l \in 1..Len(StorageOrder) :
        (i < j /\ calls[i].api = StorageOrder[k] /\ calls[j].api = StorageOrder[l])
        => k < l

AllThreeOk ==
    /\ MadeOk("create_bucket") # {}
    /\ MadeOk("put_public_access_block") # {}
    /\ MadeOk("head_bucket") # {}

\* C9 (as stated): the storage calls are made in the order create_bucket,
\* put_public_access_block, head_bucket; at the end of a run
\* setup_s3_bucket_passed is True only if all three succeeded, and False in
\* every other run.
C9_Claim ==
    (nb = "s3" /\ Ended) =>
        /\ S3CallsInOrder
        /\ ns["setup_s3_bucket_passed"] = "True" => AllThreeOk
        /\ ~AllThreeOk => ns["setup_s3_bucket_passed"] = "False"

\* C9 (amended): the storage calls are made in that order.  In a run started
\* in a fresh kernel setup_s3_bucket_passed is True only if head_bucket
\* succeeded in that run and, when the run stops at the first aborted cell,
\* only if create_bucket and put_public_access_block returned as well; at the
\* end of every other such run it is False, or still unassigned when a cell
\* was aborted.
C9_Amended ==
    nb = "s3" =>
        /\ S3CallsInOrder
        /\ (fresh /\ ns["setup_s3_bucket_passed"] = "True") =>
               /\ MadeOk("head_bucket") # {}
               /\ stopOnError => AllThreeOk
        /\ (fresh /\ Ended /\ ns["setup_s3_bucket_passed"] # "True") =>
               \/ ns["setup_s3_bucket_passed"] = "False"
               \/ (ns["setup_s3_bucket_passed"] = UNBOUND /\ errs # {})

C9_Witness ==
    /\ nb = "s3"
    /\ Ended
    /\ fresh
    /\ stopOnError
    /\ ns["setup_s3_bucket_passed"] = "True"
    /\ AllThreeOk

SetMin(S) == CHOOSE x \in S : \A y \in S : x <= y
SetMax(S) == CHOOSE x \in S : \A y \in S : x >= y

TimestampsOfData == RangeOf(Column(TimestampFeature))

\* The bucket cell has run on the dataset.
BucketsBuilt == nb = "feat" /\ ns["timestamp_buckets"] # UNBOUND

\* Consecutive boundaries are (b.stop - b.start) / (b.num - 1) apart.
EquallySpaced(b) ==
    \A i \in 1..(b.num - 1) :
        (Boundary(b, i + 1).whole - Boundary(b, i).whole) * (b.num - 1)
            + Boundary(b, i + 1).part - Boundary(b, i).part = b.stop - b.start

\* C11: for every non-empty dataset of timestamps, min_timestamp is the
\* smallest and max_timestamp the largest timestamp of the dataset, and
\* timestamp_buckets holds 1000 equally spaced boundaries of which the first
\* is min_timestamp and the last is max_timestamp.
C11_Claim ==
    BucketsBuilt =>
        /\ stamps.min = SetMin(TimestampsOfData)
        /\ stamps.max = SetMax(TimestampsOfData)
        /\ stamps.num = NumBuckets
        /\ Boundary(stamps, 1) = [whole |-> stamps.min, part |-> 0]
        /\ Boundary(stamps, stamps.num) = [whole |-> stamps.max, part |-> 0]
        /\ EquallySpaced(stamps)

\* The movie titles of the dataset, and every string a title layer is asked.
TitlesOfData == {ratings[i].movie_title : i \in 1..Len(ratings)}
TitleInputs == Titles \cup RangeOf(LiteralTitles)

TitleLookupAdapted == nb = "feat" /\ "movie_title_lookup" \in adapted

\* C12: after movie_title_lookup has been adapted, every title of the data
\* has its own index: the vocabulary holds the title at that index, the index
\* is at least 2 (0 is the mask token, 1 the unknown token) and two titles
\* never share one; every other value gets the out-of-vocabulary index 1,
\* which is no title's index; what a call returned is what the vocabulary
\* gives for the same inputs.
C12_Theorem ==
    TitleLookupAdapted =>
        LET v == vocab["movie_title_lookup"]
        IN  /\ v[1] = Reserved[1] /\ v[2] = Reserved[2]
            /\ \A t \in TitlesOfData :
                 /\ IndexOf(v, t) >= 2
                 /\ v[IndexOf(v, t) + 1] = t
            /\ \A t, u \in TitlesOfData : IndexOf(v, t) = IndexOf(v, u) => t = u
            /\ \A x \in TitleInputs \ TitlesOfData : IndexOf(v, x) = 1
            /\ out.who = "movie_title_lookup" =>
                   out.idx = LookupAll(v, LiteralTitles)

\* The lookup cell has run on a dataset of two titles: one input is a title
\* of the vocabulary, the other is not.
C12_Witness ==
    /\ TitleLookupAdapted
    /\ Cardinality(TitlesOfData) = 2
    /\ out.who = "movie_title_lookup"
    /\ out.idx[1] >= 2
    /\ out.idx[2] = 1

TitleEmbeddingBuilt ==
    /\ TitleLookupAdapted
    /\ ns["movie_title_embedding"] # UNBOUND

Batches == UNION {[1..n -> Titles] : n \in 1..MaxBatch}

TitleTextAdapted == nb = "feat" /\ "movie_model.title_text" \in adapted

\* C14: title_text_embedding returns one vector per title of the batch,
\* whatever the number of words of the titles: the mean of the embedding rows
\* of the title's own word indices, not of the index 0 that pads the title to
\* the longest title of the batch.
C14_Theorem ==
    TitleTextAdapted =>
        LET v == vocab["movie_model.title_text"]
        IN  /\ \A batch \in Batches :
                 LET e == TitleTextEmbedding(v, batch)
                 IN  /\ Len(e) = Len(batch)
                     /\ \A k \in 1..Len(batch) :
                          e[k] = LookupAll(v, Words(batch[k]))
            /\ out.who = "movie_model" =>
                 /\ Len(out.text) = Len(Take(2))
                 /\ \A k \in 1..Len(out.text) :
                      out.text[k] = LookupAll(v, Words(ratings[k].movie_title))

\* movie_model has been called on two titles with different numbers of
\* words, and a batch of the two is padded.
C14_Witness ==
    /\ TitleTextAdapted
    /\ out.who = "movie_model"
    /\ Len(out.text) = 2
    /\ Len(out.text[1]) > Len(out.text[2])
    /\ \E i \in 1..Len(out.text[1]) :
         Vectorize(vocab["movie_model.title_text"],
                   TakeColumn(2, "movie_title"))[2][i] = 0

\* ------------------------------------------- claims: role, bucket and DAG
\* C15: in every run in which create_role created the role, get_role finds
\* the role (unless the service itself fails) and the ARN it returns,
\* role_arn, is the ARN iam_role_redshift_arn taken from the create_role
\* response.
C15_Theorem ==
    ( /\ nb = "iam"
      /\ MadeOk("create_role") # {}
      /\ \E i \in Made("get_role") : calls[i].code # "ServiceFailure" )
    => ( /\ MadeOk("get_role") # {}
         /\ ns["iam_role_redshift_arn"] # UNBOUND
         /\ ns["role_arn"] = ns["iam_role_redshift_arn"] )

\* The role was created and then read back in the same run.
C15_Witness ==
    /\ nb = "iam"
    /\ MadeOk("create_role") # {}
    /\ MadeOk("get_role") # {}
    /\ ns["role_arn"] = ArnOf(RoleName)

\* The statement that stores the flag of the verification cell.
StoreFlagPc ==
    CHOOSE i \in 1..Len(S3Notebook) :
        /\ S3Notebook[i].kind = "store"
        /\ S3Notebook[i].arg = "setup_s3_bucket_passed"

FailedHeadBucket == {i \in Made("head_bucket") : calls[i].code # "ok"}

\* C16: when head_bucket fails, the ClientError is caught: no exception
\* leaves the verification cell and the run goes on; setup_s3_bucket_passed
\* is still False, and once the %store cell that follows has run, False is
\* the value the store holds.
C16_Theorem ==
    (nb = "s3" /\ FailedHeadBucket # {}) =>
        /\ \A i \in FailedHeadBucket : RaisedAt(calls[i].stmt) = {}
        /\ phase # "halted"
        /\ "[ERROR] Cannot find bucket" \in printed
        /\ ns["setup_s3_bucket_passed"] = "False"
        /\ pc # StoreFlagPc => store["setup_s3_bucket_passed"] = "False"

\* head_bucket failed and the run passed the %store cell and ended.
C16_Witness ==
    /\ nb = "s3"
    /\ FailedHeadBucket # {}
    /\ phase = "done"
    /\ store["setup_s3_bucket_passed"] = "False"

\* C17: run top to bottom in a fresh kernel, no cell of the DAG notebook
\* reads an unbound name, so that at the end all five tasks have been
\* constructed and every cell has passed.
C17_Claim ==
    (nb = "dag" /\ fresh /\ env = {}) =>
        /\ \A e \in errs : e.exc # "NameError"
        /\ Ended => (phase = "done" /\ errs = {} /\ tasks = TaskIds)

\* Statement j of the notebook was not run, or raised, in an aborted cell.
Aborted(j) == \E e \in errs : e.cell = Prog[j].cell /\ e.stmt <= j

\* The run has come to statement j.
Reached(j) ==
    CASE phase = "run" -> j < pc
      [] phase = "halted" -> \E e \in errs : j <= e.stmt
      [] OTHER -> TRUE

Completed(kind) ==
    {j \in 1..Len(Prog) : Prog[j].kind = kind /\ Reached(j) /\ ~Aborted(j)}

\* The edges that the set_upstream calls, and the set_downstream calls, of
\* this run have declared.
UpstreamWiring ==
    {UpstreamEdge(ns[Prog[j].arg], ns[Prog[j].arg2]) :
        j \in Completed("set_upstream")}
DownstreamWiring ==
    {DownstreamEdge(ns[Prog[j].arg], ns[Prog[j].arg2]) :
        j \in Completed("set_downstream")}

\* C18: at the end of a run the set_upstream calls and the set_downstream
\* calls have declared the same edges, the four edges of the chain, which are
\* the edges of the DAG.
C18_Claim ==
    (nb = "dag" /\ Ended) =>
        /\ UpstreamWiring = DownstreamWiring
        /\ edges = UpstreamWiring
        /\ Cardinality(edges) = 4

\* The tasks that follow t in start, process, train, model, deploy.
RECURSIVE ChainAfter(_)
ChainAfter(t) ==
    LET next == {e[2] : e \in {c \in Chain : c[1] = t}}
    IN  next \cup UNION {ChainAfter(d) : d \in next}

C20_Claim ==
    [][ /\ ( /\ dagrun' = "over"
             /\ \A t \in TaskIds :
                  tstate'[t] \notin {"failed", "upstream_failed"} )
           => \A t \in TaskIds : tstate'[t] = "success"
        /\ \A t \in TaskIds : tstate[t] \in Finished => tstate'[t] = tstate[t]
      ]_vars

\* ------------------------------------------------ claims: setup notebooks
\* C21: in a run of the IAM notebook in which no call fails, which is a run
\* on an account holding none of the resources, every attach_role_policy call
\* comes after create_role and after the create_policy call of the policy it
\* attaches, whose ARN it passes; the run passes every cell and ends with the
\* role and exactly the two policies attached to it.
C21_Theorem ==
    (nb = "iam" /\ FailedCalls = {}) =>
        /\ \A j \in Made("attach_role_policy") :
             /\ \E i \in MadeOk("create_role") : i < j
             /\ \E k \in MadeOk("create_policy") :
                  k < j /\ calls[j].arg = ArnOf(calls[k].arg)
        /\ \A j, k \in Made("attach_role_policy") :
             calls[j].arg = calls[k].arg => j = k
        /\ Ended =>
             /\ phase = "done"
             /\ errs = {}
             /\ RoleName \in iamAcct.roles
             /\ iamAcct.attached = PolicyNames
             /\ Cardinality(Made("attach_role_policy")) = 2

\* A complete run without a failed call: the role, two policies and two
\* attachments have been made.
C21_Witness ==
    /\ nb = "iam"
    /\ Ended
    /\ FailedCalls = {}
    /\ Cardinality(MadeOk("create_policy")) = 2
    /\ Cardinality(MadeOk("attach_role_policy")) = 2
    /\ iamAcct = FullAcct

\* The %store cell has published the bucket name and the three paths.
Published == nb = "s3" /\ \A n \in StoredPaths : store[n] # UNBOUND

Blocked == bucket = "mine" /\ pab

\* C22 (as stated): whenever the bucket name and the paths are published,
\* the bucket exists and its public access is blocked by all four flags.
C22_Claim == Published => Blocked

\* C22 (amended): when runs stop at the first aborted cell, the name and the
\* paths are published only once create_bucket and put_public_access_block
\* have returned, so the bucket exists and its public access is blocked.
\* When cells are run one by one past an aborted cell, the %store cell
\* publishes whatever the names hold, and airflow_bucket_name is bound before
\* create_bucket is called: what is published is then the bucket name, of a
\* bucket that may not exist or not be blocked.
C22_Amended ==
    Published =>
        /\ stopOnError => Blocked
        /\ store["airflow_bucket_name"] = BucketName

\* A run that stops at the first aborted cell has published the name.
C22_Witness ==
    /\ Published
    /\ stopOnError
    /\ phase = "done"
    /\ MadeOk("create_bucket") # {}
    /\ MadeOk("put_public_access_block") # {}

\* C23: at the end of every run of the bucket notebook, a stored value True
\* of setup_s3_bucket_passed was stored by that run: head_bucket succeeded in
\* it.  A run that fails before the verification does not leave the True of
\* an earlier run in the store.
C23_Claim ==
    (nb = "s3" /\ Ended /\ store["setup_s3_bucket_passed"] = "True")
        => MadeOk("head_bucket") # {}

\* ------------------------------------------- claims: order of adaptation
\* The statements of the featurization notebook that use layer l.
UsesOf(l) == {j \in 1..Len(FeatNotebook) : l \in LayersUsed(FeatNotebook[j])}
AdaptsOf(l) ==
    {j \in 1..Len(FeatNotebook) :
        FeatNotebook[j].kind = "adapt" /\ FeatNotebook[j].arg = l}

\* C24: in the featurization notebook each of the six preprocessing layers
\* is adapted earlier in the cell order than its first call and than the
\* first read of its vocabulary size, so that whenever the kernel comes to a
\* statement that calls a layer or reads its vocabulary size, the layer has
\* been adapted.
C24_Theorem ==
    nb = "feat" =>
        /\ \A l \in Layers :
             /\ UsesOf(l) # {} /\ AdaptsOf(l) # {}
             /\ \A u \in UsesOf(l) : \E a \in AdaptsOf(l) : a < u
        /\ phase = "run" => LayersUsed(Cur) \subseteq adapted
        /\ out.who \in Layers => out.who \in adapted

\* The run has passed the last cell: the six layers are adapted and the
\* last model has been called.
C24_Witness ==
    /\ nb = "feat"
    /\ phase = "done"
    /\ adapted = Layers
    /\ Cardinality(Layers) = 6
    /\ out.who = "movie_model"

====
